---- MODULE Spec2Model ----
(***************************************************************************)
(* Model of backend/satellite_tracking_service.py (SatelliteTrackingService)*)
(*                                                                         *)
(* Eight specifications share the module:                                  *)
(*   SpecParse  - _parse_tle_data applied to bounded text blocks;          *)
(*   SpecFields - _parse_tle_data applied to one record whose orbital      *)
(*                fields vary;                                             *)
(*   Spec       - the TLE catalog (self.satellites / self.last_update)     *)
(*                under interleaved coroutines calling update_tle_data and *)
(*                the read queries;                                        *)
(*   SpecStale  - _needs_update applied to bounded inputs;                 *)
(*   SpecPass   - get_satellite_passes scanning a bounded window of        *)
(*                elevation samples;                                       *)
(*   SpecConj   - calculate_collision_probability scanning a bounded       *)
(*                window of distance samples;                              *)
(*   SpecLoops  - the three loops (parser, pass scan, conjunction scan)    *)
(*                one iteration per step;                                  *)
(*   SpecLong   - get_satellite_passes over a window long enough to hold   *)
(*                more passes than are returned.                           *)
(*                                                                         *)
(* A text line is abstracted to what the code inspects of it:              *)
(*   k  - "name" (any non-blank line without a '0 ', '1 ', '2 ' prefix),   *)
(*        "zero" (starts with '0 '), "blank" (empty after strip),          *)
(*        "1" (starts with '1 '), "2" (starts with '2 ');                  *)
(*   v  - the name text, or columns 2..7 (the catalog number) of a data    *)
(*        line;                                                            *)
(*   ok - for a "2" line: columns 8..63 all convert with float();          *)
(*        for a "1" line: the line is accepted by EarthSatellite;          *)
(*   f  - for a "2" line: the numbers written in columns 8..63, angles in  *)
(*        whole degrees, mean motion in whole revolutions per day, and the *)
(*        seven digits of the eccentricity field as an integer.            *)
(* A Python dict is a sequence of <<key, value>> pairs in insertion order. *)
(***************************************************************************)
EXTENDS Integers, Sequences, FiniteSets, TLC

VARIABLES text, parsed,
          satellites, last_update, now, session, tasks, ret, hist, ingested,
          staleRes,
          samples, scan,
          dists, conj,
          ploop

vars == <<text, parsed, satellites, last_update, now, session, tasks, ret, hist, ingested, staleRes,
          samples, scan, dists, conj, ploop>>

parseVars == <<text, parsed, ploop>>
catalogVars == <<satellites, last_update, now, session, tasks, ret, hist, ingested>>
scanVars == <<samples, scan>>
conjVars == <<dists, conj>>

\* the parser has not been applied yet
NotParsed == [done |-> FALSE, sats |-> <<>>]

\* the parser's while loop has not been entered; n counts its iterations
IdleLoop == [pc |-> "idle", i |-> 1, sats |-> <<>>, n |-> 0]

\* current_pass = None
NoPass ==
    [open |-> FALSE, start_time |-> 0, max_elevation |-> 0,
     max_elevation_time |-> 0, max_elevation_azimuth |-> 0]

\* the number of samples of the window (10080 in the code, line 347)
MaxSamples == 4

\* get_satellite_passes has not been called yet
IdleScan ==
    [pc |-> "idle", window |-> MaxSamples, current_pass |-> NoPass, passes |-> <<>>,
     result |-> [kind |-> "none", passes |-> <<>>, total_passes |-> 0]]

\* min_distance = float('inf')
Inf == [inf |-> TRUE, m |-> 0]

\* the caller holds no earlier conjunction result
NoPrev ==
    [kind |-> "none", minimum_distance |-> Inf, risk_level |-> "",
     recommendation |-> ""]

\* calculate_collision_probability has not been called yet; prev is what the
\* caller kept of the result of the call before
IdleConj ==
    [pc |-> "idle", min_distance |-> Inf, closest_approach_time |-> 0,
     result |-> [kind |-> "none", minimum_distance |-> Inf,
                 closest_approach_time |-> 0,
                 collision_probability |-> [num |-> 0, den |-> 1],
                 risk_level |-> "", recommendation |-> ""],
     prev |-> NoPrev]

\* no staleness query has been made yet
NoStale == [asked |-> FALSE, source |-> "", hours |-> 0, at |-> 0, known |-> FALSE, last |-> 0, ans |-> FALSE]

----------------------------------------------------------------------------
(* Bounds *)

MaxLines == 6

----------------------------------------------------------------------------
(* Lines and text blocks *)

\* a line that is not a '2 ' line has no orbital fields
NoFields ==
    [inclination |-> 0, raan |-> 0, ecc7 |-> 0, arg_perigee |-> 0,
     mean_anomaly |-> 0, mean_motion |-> 0]

\* the orbital fields of an ordinary '2 ' line
NominalFields ==
    [inclination |-> 51, raan |-> 247, ecc7 |-> 6703, arg_perigee |-> 130,
     mean_anomaly |-> 325, mean_motion |-> 15]

NameLine(n) == [k |-> "name", v |-> n, ok |-> TRUE, f |-> NoFields]
ZeroLine(n) == [k |-> "zero", v |-> n, ok |-> TRUE, f |-> NoFields]
BlankLine == [k |-> "blank", v |-> "", ok |-> TRUE, f |-> NoFields]
Line1(id, ok) == [k |-> "1", v |-> id, ok |-> ok, f |-> NoFields]
Line2(id, ok) == [k |-> "2", v |-> id, ok |-> ok, f |-> NominalFields]

\* a '2 ' line whose columns 8..63 hold the numbers fields
Line2F(id, fields) == [k |-> "2", v |-> id, ok |-> TRUE, f |-> fields]

\* The lines a bounded text block is built from.
ParseLines ==
    { NameLine("A"), ZeroLine("A"), BlankLine,
      Line1("00001", TRUE), Line1("00002", TRUE),
      Line2("00001", TRUE), Line2("00002", TRUE), Line2("00001", FALSE) }

\* str.strip() is empty
IsBlank(line) == line.k = "blank"

\* str.startswith(p) for the prefixes the code tests
StartsWith(line, p) ==
    CASE p = "0 " -> line.k = "zero"
      [] p = "1 " -> line.k = "1"
      [] p = "2 " -> line.k = "2"
      [] OTHER -> FALSE

RECURSIVE DropLeadingBlank(_)
DropLeadingBlank(ls) ==
    IF ls # <<>> /\ IsBlank(Head(ls)) THEN DropLeadingBlank(Tail(ls)) ELSE ls

RECURSIVE DropTrailingBlank(_)
DropTrailingBlank(ls) ==
    IF ls # <<>> /\ IsBlank(ls[Len(ls)])
    THEN DropTrailingBlank(SubSeq(ls, 1, Len(ls) - 1))
    ELSE ls

\* tle_text.strip().split('\n'): blank lines at both ends vanish; an all-blank
\* text splits into the single line ''.
SplitLines(txt) ==
    LET s == DropTrailingBlank(DropLeadingBlank(txt))
    IN IF s = <<>> THEN <<BlankLine>> ELSE s

----------------------------------------------------------------------------
(* dict *)

DictKeys(d) == { d[j][1] : j \in 1..Len(d) }

DictKeySeq(d) == [j \in 1..Len(d) |-> d[j][1]]

DictHas(d, key) == key \in DictKeys(d)

DictGet(d, key) == d[CHOOSE j \in 1..Len(d) : d[j][1] = key][2]

DictSet_append(d, key, val) == Append(d, <<key, val>>)

DictSet_keepFirst(d, key, val) ==
    IF DictHas(d, key) THEN d ELSE Append(d, <<key, val>>)

\* d[key] = val: an existing key keeps its position and takes the new value
DictSet(d, key, val) ==
    IF DictHas(d, key)
    THEN [j \in 1..Len(d) |-> IF d[j][1] = key THEN <<key, val>> ELSE d[j]]
    ELSE Append(d, <<key, val>>)

----------------------------------------------------------------------------
(* _parse_tle_data *)

\* line 403: lines[i].strip() and not lines[i].startswith('0 ')
IsNameCandidate(line) == ~IsBlank(line) /\ ~StartsWith(line, "0 ")

IsRecord_anyLine1(line1, line2) == StartsWith(line2, "2 ")

\* line 408
IsRecord(line1, line2) == StartsWith(line1, "1 ") /\ StartsWith(line2, "2 ")

\* line1[2:7].strip()
SatId(line1) == line1.v

\* lines 416-421: every float(...) conversion succeeds
FieldsNumeric(line2) == line2.ok

\* the denominator of float('0.' + d) for a field d of seven digits
EccDen == 10000000

\* line 418: float('0.' + line2[26:33].strip()), as a fraction
Eccentricity(line2) == [num |-> line2.f.ecc7, den |-> EccDen]

\* lines 410-422 (the value stored under sat_id)
MakeEntry(name, line1, line2) ==
    [name |-> name, line1 |-> line1, line2 |-> line2,
     catalog_number |-> SatId(line1),
     inclination |-> line2.f.inclination,
     raan |-> line2.f.raan,
     eccentricity |-> Eccentricity(line2),
     arg_perigee |-> line2.f.arg_perigee,
     mean_anomaly |-> line2.f.mean_anomaly,
     mean_motion |-> line2.f.mean_motion]

ParseStep_stuckOnSkip(lines, st) ==
    LET i == st.i
    IN IF ~(i + 2 <= Len(lines))
       THEN [st EXCEPT !.pc = "done"]
       ELSE IF IsNameCandidate(lines[i])
            THEN IF IsRecord(lines[i + 1], lines[i + 2])
                 THEN IF FieldsNumeric(lines[i + 2])
                      THEN [st EXCEPT !.i = i + 3,
                                      !.sats = DictSet(st.sats, SatId(lines[i + 1]),
                                                       MakeEntry(lines[i], lines[i + 1], lines[i + 2]))]
                      ELSE [st EXCEPT !.pc = "failed", !.sats = <<>>]
                 ELSE [st EXCEPT !.i = i + 3]
            ELSE st

\* One iteration of the while loop (lines 402-425). st.pc is "run" while the
\* loop is executing, "done" after line 427, "failed" after lines 429-431.
ParseStep(lines, st) ==
    LET i == st.i
    IN IF ~(i + 2 <= Len(lines))
       THEN [st EXCEPT !.pc = "done"]
       ELSE IF IsNameCandidate(lines[i])
            THEN IF IsRecord(lines[i + 1], lines[i + 2])
                 THEN IF FieldsNumeric(lines[i + 2])
                      THEN [st EXCEPT !.i = i + 3,
                                      !.sats = DictSet(st.sats, SatId(lines[i + 1]),
                                                       MakeEntry(lines[i], lines[i + 1], lines[i + 2]))]
                      ELSE [st EXCEPT !.pc = "failed", !.sats = <<>>]
                 ELSE [st EXCEPT !.i = i + 3]
            ELSE [st EXCEPT !.i = i + 1]

RECURSIVE ParseRun(_, _)
ParseRun(lines, st) ==
    IF st.pc = "run" THEN ParseRun(lines, ParseStep(lines, st)) ELSE st

\* lines 395-431; the index is 1-based here
ParseTleData(txt) ==
    ParseRun(SplitLines(txt), [i |-> 1, sats |-> <<>>, pc |-> "run"]).sats

----------------------------------------------------------------------------
(* SpecParse: _parse_tle_data on every text block of at most MaxLines lines *)

\* the caller supplies one more line of the text block
AddLine ==
    /\ parsed = NotParsed
    /\ Len(text) < MaxLines
    /\ \E l \in ParseLines : text' = Append(text, l)
    /\ UNCHANGED <<parsed, ploop, catalogVars, staleRes, scanVars, conjVars>>

\* satellites = self._parse_tle_data(tle_data)
Parse ==
    /\ parsed = NotParsed
    /\ parsed' = [done |-> TRUE, sats |-> ParseTleData(text)]
    /\ UNCHANGED <<text, ploop, catalogVars, staleRes, scanVars, conjVars>>

----------------------------------------------------------------------------
(* SpecFields: _parse_tle_data on one record whose orbital fields vary *)

MaxFieldLines == 3

\* numbers an angle field of a '2 ' line can hold
AngleValues == {-1, 0, 359, 360}

\* numbers the mean motion field can hold
MotionValues == {-1, 0, 15}

\* digit strings the eccentricity field can hold
EccDigits == {0, 6703, 9999999}

\* orbital fields that differ from the ordinary ones in one column range
FieldChoices ==
    { [NominalFields EXCEPT !.inclination = a] : a \in AngleValues }
    \cup { [NominalFields EXCEPT !.raan = a] : a \in AngleValues }
    \cup { [NominalFields EXCEPT !.arg_perigee = a] : a \in AngleValues }
    \cup { [NominalFields EXCEPT !.mean_anomaly = a] : a \in AngleValues }
    \cup { [NominalFields EXCEPT !.mean_motion = n] : n \in MotionValues }
    \cup { [NominalFields EXCEPT !.ecc7 = d] : d \in EccDigits }

FieldLines ==
    { NameLine("A"), Line1("00001", TRUE) }
    \cup { Line2F("00001", fs) : fs \in FieldChoices }

\* the caller supplies one more line of a record
AddFieldLine ==
    /\ parsed = NotParsed
    /\ Len(text) < MaxFieldLines
    /\ \E l \in FieldLines : text' = Append(text, l)
    /\ UNCHANGED <<parsed, ploop, catalogVars, staleRes, scanVars, conjVars>>

----------------------------------------------------------------------------
(* The catalog: self.tle_sources, self.satellites, self.last_update *)

\* keys of self.tle_sources (two of the twelve, in their dict order)
SourceOrder == <<"iss", "debris">>

TleSources == { SourceOrder[j] : j \in 1..Len(SourceOrder) }

\* what a caller may pass as source / constellation
CallSources == TleSources \cup {"all", "bogus"}

\* the coroutines of the event loop: one caller that ingests (the refresh
\* scheduler) and one that queries
Ingesters == {"t1"}

Queriers == {"t2"}

Tasks == Ingesters \cup Queriers

MaxNow == 21601

\* the clock readings of datetime.now() are seconds; it advances in these steps
TickSteps == {21600, 21601}

SecondsPerHour == 3600

DefaultMaxAgeHours == 6

RecA == <<NameLine("A"), Line1("00001", TRUE), Line2("00001", TRUE)>>
RecA2 == <<NameLine("B"), Line1("00001", TRUE), Line2("00001", TRUE)>>
RecB == <<NameLine("B"), Line1("00002", FALSE), Line2("00002", TRUE)>>
RecC == <<NameLine("C"), Line1("00003", TRUE), Line2("00003", TRUE)>>
RecBad == <<NameLine("A"), Line1("00001", TRUE), Line2("00001", FALSE)>>

\* the text blocks a source URL may answer with
FetchTexts == { RecA \o RecA2 \o RecB, RecC, RecBad \o RecC }

EmptyMap == [x \in {} |-> x]

\* line 57
SourcesToUpdate(source) == IF source # "all" THEN <<source>> ELSE SourceOrder


InstallBatch_keepOnEmpty(sats, src, batch) ==
    IF batch = <<>> /\ src \in DOMAIN sats THEN sats ELSE (src :> batch) @@ sats

InstallBatch_partial(sats, src, batch) ==
    (src :> SubSeq(batch, 1, IF Len(batch) > 1 THEN 1 ELSE Len(batch))) @@ sats

InstallBatch_merge(sats, src, batch) ==
    IF src \in DOMAIN sats THEN (src :> (sats[src] \o batch)) @@ sats
    ELSE (src :> batch) @@ sats

\* lines 71 / 83: self.satellites[src] = satellites
InstallBatch(sats, src, batch) == (src :> batch) @@ sats

\* lines 72 / 84: self.last_update[src] = datetime.now(timezone.utc)
StampUpdate(lu, src, t) == (src :> t) @@ lu

\* lines 73-77 / 85-89
SuccessResult(batch, t) == [status |-> "success", count |-> Len(batch), updated |-> t]

\* line 93
ErrorResult == [status |-> "error", count |-> 0, updated |-> 0]

\* What one fetch of a source can come to: a 200 response carrying a text, a
\* response with another status, or an exception out of the request.
Outcomes ==
    { [kind |-> "ok", text |-> x] : x \in FetchTexts }
      \cup { [kind |-> "status", text |-> <<>>], [kind |-> "exception", text |-> <<>>] }

ApplyOutcome_noStamp(cat, src, outcome, t) ==
    IF outcome.kind = "ok"
    THEN [sats |-> InstallBatch(cat.sats, src, ParseTleData(outcome.text)),
          lu |-> cat.lu]
    ELSE cat

ApplyOutcome_stampAlways(cat, src, outcome, t) ==
    IF outcome.kind = "ok"
    THEN [sats |-> InstallBatch(cat.sats, src, ParseTleData(outcome.text)),
          lu |-> StampUpdate(cat.lu, src, t)]
    ELSE [sats |-> cat.sats, lu |-> StampUpdate(cat.lu, src, t)]

ApplyOutcome_dropOthers(cat, src, outcome, t) ==
    IF outcome.kind = "ok"
    THEN [sats |-> (src :> ParseTleData(outcome.text)),
          lu |-> (src :> t)]
    ELSE cat

\* lines 65-93: the effect of one source's fetch on the catalog
\* cat = [sats |-> self.satellites, lu |-> self.last_update]
ApplyOutcome(cat, src, outcome, t) ==
    IF outcome.kind = "ok"
    THEN [sats |-> InstallBatch(cat.sats, src, ParseTleData(outcome.text)),
          lu |-> StampUpdate(cat.lu, src, t)]
    ELSE cat

\* lines 73-77, 85-89, 93: results after one source's fetch; a response with a
\* status other than 200 leaves no entry
ResultsAfter(results, src, outcome, t) ==
    CASE outcome.kind = "ok" ->
            (src :> SuccessResult(ParseTleData(outcome.text), t)) @@ results
      [] outcome.kind = "exception" -> (src :> ErrorResult) @@ results
      [] OTHER -> results

NeedsUpdate_geq(lu, source, t, max_age_hours) ==
    IF source \notin DOMAIN lu THEN TRUE
    ELSE (t - lu[source]) >= max_age_hours * SecondsPerHour

\* lines 451-457: _needs_update
NeedsUpdate(lu, source, t, max_age_hours) ==
    IF source \notin DOMAIN lu THEN TRUE
    ELSE (t - lu[source]) > max_age_hours * SecondsPerHour

Min(a, b) == IF a < b THEN a ELSE b

\* list(d.items())[:n]
Take(d, n) == SubSeq(d, 1, Min(Len(d), n))

\* EarthSatellite(line1, line2, name, ts) and .at(t).subpoint() succeed
Propagates(entry) == entry.line1.ok

RECURSIVE Processed(_)
\* the ids appended by the per-object loop; an object that raises is skipped
Processed(items) ==
    IF items = <<>> THEN <<>>
    ELSE IF Propagates(Head(items)[2])
         THEN <<Head(items)[1]>> \o Processed(Tail(items))
         ELSE Processed(Tail(items))

ConstellationLimit == 50

DebrisLimit == 100

ReadConstellation_abortOnError(sats, c) ==
    IF c \notin DOMAIN sats
    THEN [kind |-> "error", total |-> 0, items |-> <<>>, list |-> <<>>]
    ELSE IF \E i \in 1..Min(Len(sats[c]), ConstellationLimit) : ~Propagates(sats[c][i][2])
         THEN [kind |-> "empty", total |-> 0,
               items |-> Take(sats[c], ConstellationLimit), list |-> <<>>]
         ELSE [kind |-> "ok", total |-> Len(sats[c]),
               items |-> Take(sats[c], ConstellationLimit),
               list |-> Processed(Take(sats[c], ConstellationLimit))]

\* lines 154-195: get_satellite_constellation after the refresh check
ReadConstellation(sats, c) ==
    IF c \notin DOMAIN sats
    THEN [kind |-> "error", total |-> 0, items |-> <<>>, list |-> <<>>]
    ELSE [kind |-> "ok", total |-> Len(sats[c]),
          items |-> Take(sats[c], ConstellationLimit),
          list |-> Processed(Take(sats[c], ConstellationLimit))]

\* lines 203-260: get_space_debris_tracking after the refresh check
ReadDebris(sats) ==
    IF "debris" \notin DOMAIN sats
    THEN [kind |-> "error", total |-> 0, items |-> <<>>, list |-> <<>>]
    ELSE [kind |-> "ok", total |-> Len(sats["debris"]),
          items |-> Take(sats["debris"], DebrisLimit),
          list |-> Processed(Take(sats["debris"], DebrisLimit))]

\* lines 108-146: get_iss_position after the refresh check; kind "empty" is
\* the {} returned by the except clause
ReadIss(sats) ==
    IF "iss" \notin DOMAIN sats \/ sats["iss"] = <<>>
    THEN [kind |-> "error", total |-> 0, items |-> <<>>, list |-> <<>>]
    ELSE IF Propagates(sats["iss"][1][2])
         THEN [kind |-> "ok", total |-> 1, items |-> Take(sats["iss"], 1),
               list |-> <<sats["iss"][1][1]>>]
         ELSE [kind |-> "empty", total |-> 0, items |-> Take(sats["iss"], 1), list |-> <<>>]

ReadOps == {"iss_position", "constellation", "debris"}

\* the value a read query returns once its refresh check is over
ReadResult(op, arg, sats) ==
    CASE op = "iss_position" -> ReadIss(sats)
      [] op = "debris" -> ReadDebris(sats)
      [] OTHER -> ReadConstellation(sats, arg)

----------------------------------------------------------------------------
(* Spec: coroutines of one event loop calling the service.                 *)
(* A task at pc "loop" is executing synchronous code of update_tle_data    *)
(* (top of the for loop, line 59) and holds the event loop; tasks at       *)
(* "await_get" / "await_text" are suspended at lines 67 / 69.              *)
(* ret is the value returned by the call that completed in the last step   *)
(* (kind "none" when the last step completed no call).                     *)
(* hist[g] is a history variable: the batch parsed by the last successful  *)
(* ingestion of g.  ingested describes the last step when it was a         *)
(* successful ingestion: the group, the batch parsed, and the catalog      *)
(* numbers of the batch parsed by the group's previous successful          *)
(* ingestion (second tells that there was one).                            *)

NoRet == [task |-> "", op |-> "none", arg |-> "", kind |-> "none", total |-> 0,
          items |-> <<>>, list |-> <<>>, results |-> EmptyMap]

NoIngest == [src |-> "", second |-> FALSE, prev |-> {}, batch |-> <<>>]

IdleTask == [op |-> "none", arg |-> "", pc |-> "idle", srcs |-> <<>>,
             results |-> EmptyMap]

\* the return value of a call of task t
Returned(t, op, arg, r, results) ==
    [task |-> t, op |-> op, arg |-> arg, kind |-> r.kind, total |-> r.total,
     items |-> r.items, list |-> r.list, results |-> results]

\* line 95: update_tle_data returns results
UpdateResult == [kind |-> "results", total |-> 0, items |-> <<>>, list |-> <<>>]

Init ==
    /\ satellites = EmptyMap
    /\ last_update = EmptyMap
    /\ now = 0
    /\ session = "none"
    /\ tasks = [t \in Tasks |-> IdleTask]
    /\ ret = NoRet
    /\ ingested = NoIngest
    /\ hist = EmptyMap
    /\ text = <<>>
    /\ parsed = NotParsed
    /\ staleRes = NoStale
    /\ samples = <<>>
    /\ scan = IdleScan
    /\ dists = <<>>
    /\ conj = IdleConj
    /\ ploop = IdleLoop

Callable(t) == tasks[t].pc = "idle"

NoRunner == \A u \in Tasks : tasks[u].pc # "loop"

AtSource(t) ==
    /\ tasks[t].pc = "loop"
    /\ tasks[t].srcs # <<>>
    /\ Head(tasks[t].srcs) \in TleSources

\* the rest of one loop iteration once the outcome of the fetch is known
Fetched(t, outcome) ==
    LET tk == tasks[t]
        src == Head(tk.srcs)
        cat == ApplyOutcome([sats |-> satellites, lu |-> last_update], src, outcome, now)
    IN /\ satellites' = cat.sats
       /\ last_update' = cat.lu
       /\ hist' = IF outcome.kind = "ok"
                  THEN (src :> ParseTleData(outcome.text)) @@ hist
                  ELSE hist
       /\ ingested' = IF outcome.kind = "ok"
                      THEN [src |-> src, second |-> src \in DOMAIN hist,
                            prev |-> IF src \in DOMAIN hist THEN DictKeys(hist[src]) ELSE {},
                            batch |-> ParseTleData(outcome.text)]
                      ELSE NoIngest
       /\ tasks' = [tasks EXCEPT ![t] =
                        [tk EXCEPT !.pc = "loop", !.srcs = Tail(tk.srcs),
                                   !.results = ResultsAfter(tk.results, src, outcome, now)]]
       /\ ret' = NoRet
       /\ UNCHANGED <<now, session, parseVars, staleRes, scanVars, conjVars>>

\* line 53: await service.update_tle_data(source)
CallUpdate(t, source) ==
    /\ Callable(t)
    /\ NoRunner
    /\ tasks' = [tasks EXCEPT ![t] =
                    [op |-> "update", arg |-> source, pc |-> "loop",
                     srcs |-> SourcesToUpdate(source), results |-> EmptyMap]]
    /\ ret' = NoRet
    /\ ingested' = NoIngest
    /\ UNCHANGED <<satellites, last_update, now, session, hist, parseVars, staleRes, scanVars, conjVars>>

\* lines 60-61: continue
SkipUnknown(t) ==
    /\ tasks[t].pc = "loop"
    /\ tasks[t].srcs # <<>>
    /\ Head(tasks[t].srcs) \notin TleSources
    /\ tasks' = [tasks EXCEPT ![t].srcs = Tail(@)]
    /\ ret' = NoRet
    /\ ingested' = NoIngest
    /\ UNCHANGED <<satellites, last_update, now, session, hist, parseVars, staleRes, scanVars, conjVars>>

\* line 67: the request goes out on the open session and the coroutine waits
BeginGet(t) ==
    /\ AtSource(t)
    /\ session = "open"
    /\ tasks' = [tasks EXCEPT ![t].pc = "await_get"]
    /\ ret' = NoRet
    /\ ingested' = NoIngest
    /\ UNCHANGED <<satellites, last_update, now, session, hist, parseVars, staleRes, scanVars, conjVars>>

\* line 67 on a session that __aexit__ has closed: get() raises at once
GetClosed(t) ==
    /\ AtSource(t)
    /\ session = "closed"
    /\ Fetched(t, [kind |-> "exception", text |-> <<>>])

\* lines 79-89: requests.get blocks the thread, no other coroutine runs
SyncRequest(t) ==
    /\ AtSource(t)
    /\ session = "none"
    /\ \E outcome \in Outcomes : Fetched(t, outcome)

\* line 68: the response has status 200; line 69 waits for the body
GetResponse200(t) ==
    /\ tasks[t].pc = "await_get"
    /\ NoRunner
    /\ tasks' = [tasks EXCEPT ![t].pc = "await_text"]
    /\ ret' = NoRet
    /\ ingested' = NoIngest
    /\ UNCHANGED <<satellites, last_update, now, session, hist, parseVars, staleRes, scanVars, conjVars>>

\* line 67/68: the request raises, or the status is not 200
GetResponseFail(t) ==
    /\ tasks[t].pc = "await_get"
    /\ NoRunner
    /\ \E outcome \in { o \in Outcomes : o.kind # "ok" } : Fetched(t, outcome)

\* lines 69-77: the body arrives (or reading it raises)
GetText(t) ==
    /\ tasks[t].pc = "await_text"
    /\ NoRunner
    /\ \E outcome \in { o \in Outcomes : o.kind # "status" } : Fetched(t, outcome)

\* line 95: return results; a read query that awaited the refresh goes on to
\* its own body without yielding
ReturnFromUpdate(t) ==
    /\ tasks[t].pc = "loop"
    /\ tasks[t].srcs = <<>>
    /\ tasks' = [tasks EXCEPT ![t] = IdleTask]
    /\ ret' = IF tasks[t].op = "update"
              THEN Returned(t, "update", tasks[t].arg, UpdateResult, tasks[t].results)
              ELSE Returned(t, tasks[t].op, tasks[t].arg,
                            ReadResult(tasks[t].op, tasks[t].arg, satellites), EmptyMap)
    /\ ingested' = NoIngest
    /\ UNCHANGED <<satellites, last_update, now, session, hist, parseVars, staleRes, scanVars, conjVars>>

\* the group a read query is about
ReadGroup(op, c) ==
    CASE op = "iss_position" -> "iss"
      [] op = "debris" -> "debris"
      [] OTHER -> c

MustRefresh_always(sats, lu, g, t) == TRUE

\* lines 105, 151, 200: the refresh check of a read query
MustRefresh(sats, lu, g, t) ==
    g \notin DOMAIN sats \/ NeedsUpdate(lu, g, t, DefaultMaxAgeHours)

\* get_iss_position / get_satellite_constellation / get_space_debris_tracking
CallRead(t, op, c) ==
    /\ Callable(t)
    /\ NoRunner
    /\ c = ReadGroup(op, c)
    /\ IF MustRefresh(satellites, last_update, c, now)
       THEN /\ tasks' = [tasks EXCEPT ![t] =
                            [op |-> op, arg |-> c, pc |-> "loop",
                             srcs |-> SourcesToUpdate(c), results |-> EmptyMap]]
            /\ ret' = NoRet
       ELSE /\ tasks' = tasks
            /\ ret' = Returned(t, op, c, ReadResult(op, c, satellites), EmptyMap)
    /\ ingested' = NoIngest
    /\ UNCHANGED <<satellites, last_update, now, session, hist, parseVars, staleRes, scanVars, conjVars>>

\* lines 43-46, entered while no call is in progress
Aenter ==
    /\ \A t \in Tasks : Callable(t)
    /\ session' = "open"
    /\ ret' = NoRet
    /\ ingested' = NoIngest
    /\ UNCHANGED <<satellites, last_update, now, tasks, hist, parseVars, staleRes, scanVars, conjVars>>

\* lines 48-51, left while no call is in progress
Aexit ==
    /\ \A t \in Tasks : Callable(t)
    /\ session' = IF session = "none" THEN "none" ELSE "closed"
    /\ ret' = NoRet
    /\ ingested' = NoIngest
    /\ UNCHANGED <<satellites, last_update, now, tasks, hist, parseVars, staleRes, scanVars, conjVars>>

\* time passes
Tick ==
    /\ \E d \in TickSteps : now + d <= MaxNow /\ now' = now + d
    /\ ret' = NoRet
    /\ ingested' = NoIngest
    /\ UNCHANGED <<satellites, last_update, session, tasks, hist, parseVars, staleRes, scanVars, conjVars>>

Next ==
    \/ \E t \in Ingesters, s \in CallSources : CallUpdate(t, s)
    \/ \E t \in Queriers, op \in ReadOps, c \in TleSources \cup {"bogus"} : CallRead(t, op, c)
    \/ \E t \in Tasks : SkipUnknown(t)
    \/ \E t \in Tasks : BeginGet(t)
    \/ \E t \in Tasks : GetClosed(t)
    \/ \E t \in Tasks : SyncRequest(t)
    \/ \E t \in Tasks : GetResponse200(t)
    \/ \E t \in Tasks : GetResponseFail(t)
    \/ \E t \in Tasks : GetText(t)
    \/ \E t \in Tasks : ReturnFromUpdate(t)
    \/ Aenter
    \/ Aexit
    \/ Tick

Spec == Init /\ [][Next]_vars

ParseNext ==
    \/ AddLine
    \/ Parse

\* the service as constructed, then the parser applied to a text block
SpecParse == Init /\ [][ParseNext]_vars

FieldsNext ==
    \/ AddFieldLine
    \/ Parse

\* the service as constructed, then the parser applied to a record
SpecFields == Init /\ [][FieldsNext]_vars

----------------------------------------------------------------------------
(* SpecStale: _needs_update asked of a catalog at bounded times *)

StaleTimes == {0, 1, 3600, 21600, 21601}

MaxAgeChoices == {0, 1, 6}

StaleInit ==
    /\ \E G \in SUBSET TleSources :
          /\ last_update \in [G -> StaleTimes]
          /\ satellites = [g \in G |-> ParseTleData(RecC)]
          /\ hist = [g \in G |-> ParseTleData(RecC)]
    /\ now \in StaleTimes
    /\ \A g \in DOMAIN last_update : last_update[g] <= now
    /\ session = "none"
    /\ tasks = [t \in Tasks |-> IdleTask]
    /\ ret = NoRet
    /\ ingested = NoIngest
    /\ text = <<>>
    /\ parsed = NotParsed
    /\ staleRes = NoStale
    /\ samples = <<>>
    /\ scan = IdleScan
    /\ dists = <<>>
    /\ conj = IdleConj
    /\ ploop = IdleLoop

\* self._needs_update(source, max_age_hours)
QueryStale(source, max_age_hours) ==
    /\ staleRes' = [asked |-> TRUE, source |-> source, hours |-> max_age_hours,
                    at |-> now, known |-> source \in DOMAIN last_update,
                    last |-> IF source \in DOMAIN last_update THEN last_update[source] ELSE 0,
                    ans |-> NeedsUpdate(last_update, source, now, max_age_hours)]
    /\ UNCHANGED <<catalogVars, parseVars, scanVars, conjVars>>

\* the clock moves on to a later reading
StaleTick ==
    /\ \E t \in StaleTimes : t > now /\ now' = t
    /\ UNCHANGED <<satellites, last_update, session, tasks, ret, hist, ingested, parseVars, staleRes, scanVars, conjVars>>

StaleNext ==
    \/ \E s \in TleSources \cup {"bogus"}, h \in MaxAgeChoices : QueryStale(s, h)
    \/ StaleTick

SpecStale == StaleInit /\ [][StaleNext]_vars

----------------------------------------------------------------------------
(* SpecPass: get_satellite_passes over a window of MaxSamples samples.      *)
(* Sample i of the window is evaluated at time i; its elevation and its     *)
(* azimuth are whole degrees.                                               *)

\* line 355: the elevation a visible satellite is above
MinElevation == 10

\* line 387: passes[:10]
PassLimit == 10

ElevValues == {5, 10, 15, 20, 40, 70, 80}

AzValues == {90, 270}

\* satellite_name arguments
PassQueries == {"a", "b", "z"}

\* the catalog the passes are asked of
PassCatalog ==
    ("iss" :> ParseTleData(RecA)) @@ ("debris" :> ParseTleData(RecB \o RecC))

\* str.lower() on the one-letter names of the model
Lower(n) ==
    CASE n = "A" -> "a"
      [] n = "B" -> "b"
      [] n = "C" -> "c"
      [] OTHER -> n

RECURSIVE EntriesFrom(_, _)
\* lines 323-324: the entries of all groups, group after group
EntriesFrom(sats, order) ==
    IF order = <<>> THEN <<>>
    ELSE (IF Head(order) \in DOMAIN sats THEN sats[Head(order)] ELSE <<>>)
         \o EntriesFrom(sats, Tail(order))

\* line 325: satellite_name.lower() in sat_data['name'].lower(), for
\* one-letter names
NameMatches(q, entry) == Lower(q) = Lower(entry.name.v)

\* lines 322-330: the first entry whose name matches; <<>> when none does
FindSatellite(sats, q) ==
    LET es == EntriesFrom(sats, SourceOrder)
        hits == { j \in 1..Len(es) : NameMatches(q, es[j][2]) }
    IN IF hits = {} THEN <<>>
       ELSE <<es[CHOOSE j \in hits : \A h \in hits : j <= h][2]>>

Visible_atMinimum(alt) == alt >= MinElevation

\* line 355
Visible(alt) == alt > MinElevation

\* lines 580-589
ClassifyPassVisibility(max_elevation) ==
    IF max_elevation > 70 THEN "excellent"
    ELSE IF max_elevation > 40 THEN "good"
    ELSE IF max_elevation > 20 THEN "fair"
    ELSE "poor"

\* lines 357-362
OpenPass(t, alt, az) ==
    [open |-> TRUE, start_time |-> t, max_elevation |-> alt,
     max_elevation_time |-> t, max_elevation_azimuth |-> az]

RaisePeak_keepTime(cp, t, alt, az) ==
    IF alt > cp.max_elevation THEN [cp EXCEPT !.max_elevation = alt] ELSE cp

\* lines 364-367
RaisePeak(cp, t, alt, az) ==
    IF alt > cp.max_elevation
    THEN [cp EXCEPT !.max_elevation = alt,
                    !.max_elevation_time = t,
                    !.max_elevation_azimuth = az]
    ELSE cp

\* lines 370-376: the pass as it is appended
ClosePass(cp, t) ==
    [start_time |-> cp.start_time,
     max_elevation |-> cp.max_elevation,
     max_elevation_time |-> cp.max_elevation_time,
     max_elevation_azimuth |-> cp.max_elevation_azimuth,
     end_time |-> t,
     duration_minutes |-> t - cp.start_time,
     visibility |-> ClassifyPassVisibility(cp.max_elevation)]

AppendPass_front(passes, p) == <<p>> \o passes

\* line 377
AppendPass(passes, p) == Append(passes, p)

\* One iteration of the for loop (lines 350-378).
ScanStep(st, t, alt, az) ==
    IF Visible(alt)
    THEN IF ~st.current_pass.open
         THEN [st EXCEPT !.current_pass = OpenPass(t, alt, az)]
         ELSE [st EXCEPT !.current_pass = RaisePeak(st.current_pass, t, alt, az)]
    ELSE IF st.current_pass.open
         THEN [st EXCEPT !.passes = AppendPass(st.passes, ClosePass(st.current_pass, t)),
                         !.current_pass = NoPass]
         ELSE st

PassesResult_countReturned(st) ==
    [kind |-> "ok", passes |-> Take(st.passes, PassLimit),
     total_passes |-> Len(Take(st.passes, PassLimit))]

PassesResult_keepOpen(st) ==
    LET all == IF st.current_pass.open
               THEN Append(st.passes, ClosePass(st.current_pass, MaxSamples))
               ELSE st.passes
    IN [kind |-> "ok", passes |-> Take(all, PassLimit), total_passes |-> Len(all)]

\* lines 380-389
PassesResult(st) ==
    [kind |-> "ok", passes |-> Take(st.passes, PassLimit),
     total_passes |-> Len(st.passes)]

PassesCall_evict(q) ==
    /\ scan.pc = "idle"
    /\ LET found == FindSatellite(satellites, q)
       IN /\ scan' = IF found = <<>>
                     THEN [scan EXCEPT !.pc = "returned", !.result.kind = "error"]
                     ELSE IF ~Propagates(found[1])
                          THEN [scan EXCEPT !.pc = "returned", !.result.kind = "empty"]
                          ELSE [scan EXCEPT !.pc = "loop"]
          /\ satellites' = IF found # <<>> /\ ~Propagates(found[1])
                           THEN [g \in DOMAIN satellites \ {"debris"} |-> satellites[g]]
                           ELSE satellites
    /\ UNCHANGED <<samples, last_update, now, session, tasks, ret, hist, ingested,
                   parseVars, staleRes, conjVars>>

\* get_satellite_passes(lat, lon, elevation, q) up to the loop (lines 320-349)
PassesCall(q) ==
    /\ scan.pc = "idle"
    /\ LET found == FindSatellite(satellites, q)
       IN scan' = IF found = <<>>
                  THEN [scan EXCEPT !.pc = "returned", !.result.kind = "error"]
                  ELSE IF ~Propagates(found[1])
                       THEN [scan EXCEPT !.pc = "returned", !.result.kind = "empty"]
                       ELSE [scan EXCEPT !.pc = "loop"]
    /\ UNCHANGED <<samples, catalogVars, parseVars, staleRes, conjVars>>

\* the loop body for the next t of times, the satellite being at (alt, az)
ScanSample(alt, az) ==
    /\ scan.pc = "loop"
    /\ Len(samples) < scan.window
    /\ samples' = Append(samples, [alt |-> alt, az |-> az])
    /\ scan' = ScanStep(scan, Len(samples) + 1, alt, az)
    /\ UNCHANGED <<catalogVars, parseVars, staleRes, conjVars>>

\* times is exhausted: lines 380-389
PassesReturn ==
    /\ scan.pc = "loop"
    /\ Len(samples) = scan.window
    /\ scan' = [scan EXCEPT !.pc = "returned", !.result = PassesResult(scan)]
    /\ UNCHANGED <<samples, catalogVars, parseVars, staleRes, conjVars>>

\* the service with a loaded catalog
PassInit ==
    /\ satellites = PassCatalog
    /\ last_update = [g \in DOMAIN PassCatalog |-> 0]
    /\ hist = PassCatalog
    /\ now = 0
    /\ session = "none"
    /\ tasks = [t \in Tasks |-> IdleTask]
    /\ ret = NoRet
    /\ ingested = NoIngest
    /\ text = <<>>
    /\ parsed = NotParsed
    /\ staleRes = NoStale
    /\ samples = <<>>
    /\ scan = IdleScan
    /\ dists = <<>>
    /\ conj = IdleConj
    /\ ploop = IdleLoop

PassNext ==
    \/ \E q \in PassQueries : PassesCall(q)
    \/ \E alt \in ElevValues, az \in AzValues : ScanSample(alt, az)
    \/ PassesReturn

SpecPass == PassInit /\ [][PassNext]_vars

----------------------------------------------------------------------------
(* SpecLong: get_satellite_passes over a window that can hold more than    *)
(* PassLimit passes. The first HeadSamples samples are any elevations; the *)
(* rest of the profile alternates short passes (one sample above the       *)
(* threshold, one below) and then stays below the horizon.                 *)

\* the number of samples whose elevation is unconstrained
HeadSamples == 2

\* the number of samples of the window (10080 in the code, line 347)
LongWindow == HeadSamples + 2 * (PassLimit + 1)

\* the elevations the next sample of the tail may have
TailChoices(s) ==
    LET j == Len(s) - HeadSamples
    IN IF j = 0 THEN {5, 15}
       ELSE IF Visible(s[Len(s)].alt) THEN {5}
       ELSE IF j >= 2 /\ ~Visible(s[Len(s) - 1].alt) THEN {5}
       ELSE {5, 15}

\* the service with a loaded catalog, about to scan a long window
LongInit ==
    /\ satellites = PassCatalog
    /\ last_update = [g \in DOMAIN PassCatalog |-> 0]
    /\ hist = PassCatalog
    /\ now = 0
    /\ session = "none"
    /\ tasks = [t \in Tasks |-> IdleTask]
    /\ ret = NoRet
    /\ ingested = NoIngest
    /\ text = <<>>
    /\ parsed = NotParsed
    /\ staleRes = NoStale
    /\ samples = <<>>
    /\ scan = [IdleScan EXCEPT !.window = LongWindow]
    /\ dists = <<>>
    /\ conj = IdleConj
    /\ ploop = IdleLoop

LongNext ==
    \/ \E q \in PassQueries : PassesCall(q)
    \/ Len(samples) < HeadSamples
          /\ \E alt \in ElevValues, az \in AzValues : ScanSample(alt, az)
    \/ Len(samples) >= HeadSamples
          /\ \E alt \in TailChoices(samples) : ScanSample(alt, 90)
    \/ PassesReturn

SpecLong == LongInit /\ [][LongNext]_vars

----------------------------------------------------------------------------
(* SpecConj: calculate_collision_probability over a window of               *)
(* MaxConjSamples samples. Sample i is evaluated at time i. A distance is a *)
(* whole number of metres, or NaN when a position could not be computed;    *)
(* a probability is the fraction num / den.                                 *)

\* the number of samples of the window (1440 in the code, line 283)
MaxConjSamples == 3

\* line 298: collision_radius = 1.0 km, in metres
CollisionRadius == 1000

\* line 299: the 10 km threshold, in metres
LookaheadThreshold == 10000

\* line 576: the 5 km close-approach distance, in metres
CloseApproach == 5000

Nan == [nan |-> TRUE, m |-> 0]

Metres(n) == [nan |-> FALSE, m |-> n]

\* np.linalg.norm(pos1 - pos2) at one sample
DistValues ==
    { Metres(n) : n \in {0, 500, 899, 900, 989, 990, 999, 1000, 4999, 5000,
                          9999, 10000, 20000} }
    \cup {Nan}

\* (sat1_id, sat2_id, source1, source2) arguments
ConjCalls ==
    { <<"00001", "00003", "iss", "debris">>,
      <<"00001", "00002", "iss", "debris">>,
      <<"00001", "00009", "iss", "debris">>,
      <<"00001", "00003", "active_satellites", "debris">> }

\* line 293: distance < min_distance, on floats
FloatLess(distance, min_distance) ==
    /\ ~distance.nan
    /\ (min_distance.inf \/ distance.m < min_distance.m)

TrackMin_last(st, t, distance) ==
    IF distance.nan THEN st
    ELSE [st EXCEPT !.min_distance = [inf |-> FALSE, m |-> distance.m],
                    !.closest_approach_time = t]

\* lines 293-295
TrackMin(st, t, distance) ==
    IF FloatLess(distance, st.min_distance)
    THEN [st EXCEPT !.min_distance = [inf |-> FALSE, m |-> distance.m],
                    !.closest_approach_time = t]
    ELSE st

Max(a, b) == IF a > b THEN a ELSE b

Probability_unclamped(min_distance) ==
    IF ~min_distance.inf /\ min_distance.m < LookaheadThreshold
    THEN [num |-> CollisionRadius - min_distance.m, den |-> CollisionRadius]
    ELSE [num |-> 0, den |-> CollisionRadius]

\* line 299
Probability(min_distance) ==
    IF ~min_distance.inf /\ min_distance.m < LookaheadThreshold
    THEN [num |-> Max(0, CollisionRadius - min_distance.m), den |-> CollisionRadius]
    ELSE [num |-> 0, den |-> CollisionRadius]

RiskLevel_geq(probability) ==
    IF probability.num * 10 >= probability.den THEN "high"
    ELSE IF probability.num * 100 >= probability.den THEN "medium"
    ELSE "low"

\* line 307
RiskLevel(probability) ==
    IF probability.num * 10 > probability.den THEN "high"
    ELSE IF probability.num * 100 > probability.den THEN "medium"
    ELSE "low"

GetCollisionRecommendation_byRiskOnly(probability, distance) ==
    IF probability.num * 10 > probability.den THEN "immediate maneuver"
    ELSE IF probability.num * 100 > probability.den THEN "monitor closely"
    ELSE "normal operations"

\* lines 569-578
GetCollisionRecommendation(probability, distance) ==
    IF probability.num * 10 > probability.den THEN "immediate maneuver"
    ELSE IF probability.num * 100 > probability.den THEN "monitor closely"
    ELSE IF ~distance.inf /\ distance.m < CloseApproach THEN "close approach"
    ELSE "normal operations"

\* lines 301-309
ConjResult(st) ==
    [kind |-> "ok",
     minimum_distance |-> st.min_distance,
     closest_approach_time |-> st.closest_approach_time,
     collision_probability |-> Probability(st.min_distance),
     risk_level |-> RiskLevel(Probability(st.min_distance)),
     recommendation |-> GetCollisionRecommendation(Probability(st.min_distance),
                                                   st.min_distance)]

\* calculate_collision_probability(sat1_id, sat2_id, source1, source2) up to
\* the loop (lines 266-290)
ConjCall(c) ==
    /\ conj.pc = "idle"
    /\ LET sat1_id == c[1]
           sat2_id == c[2]
           source1 == c[3]
           source2 == c[4]
       IN conj' =
            IF source1 \notin DOMAIN satellites \/ source2 \notin DOMAIN satellites
            THEN [conj EXCEPT !.pc = "returned", !.result.kind = "error_unavailable"]
            ELSE IF ~DictHas(satellites[source1], sat1_id)
                    \/ ~DictHas(satellites[source2], sat2_id)
            THEN [conj EXCEPT !.pc = "returned", !.result.kind = "error_not_found"]
            ELSE IF ~Propagates(DictGet(satellites[source1], sat1_id))
                    \/ ~Propagates(DictGet(satellites[source2], sat2_id))
            THEN [conj EXCEPT !.pc = "returned", !.result.kind = "empty"]
            ELSE [conj EXCEPT !.pc = "loop"]
    /\ UNCHANGED <<dists, catalogVars, parseVars, staleRes, scanVars>>

\* the loop body for the next t of times, the objects being distance apart
ConjSample(distance) ==
    /\ conj.pc = "loop"
    /\ Len(dists) < MaxConjSamples
    /\ dists' = Append(dists, distance)
    /\ conj' = TrackMin(conj, Len(dists) + 1, distance)
    /\ UNCHANGED <<catalogVars, parseVars, staleRes, scanVars>>

\* times is exhausted: lines 297-311
ConjReturn ==
    /\ conj.pc = "loop"
    /\ Len(dists) = MaxConjSamples
    /\ conj' = [conj EXCEPT !.pc = "returned", !.result = ConjResult(conj)]
    /\ UNCHANGED <<dists, catalogVars, parseVars, staleRes, scanVars>>

\* the caller keeps the result and is ready to call again with fresh locals
ConjAgain ==
    /\ conj.pc = "returned"
    /\ conj' = [IdleConj EXCEPT !.prev =
                    [kind |-> conj.result.kind,
                     minimum_distance |-> conj.result.minimum_distance,
                     risk_level |-> conj.result.risk_level,
                     recommendation |-> conj.result.recommendation]]
    /\ dists' = <<>>
    /\ UNCHANGED <<catalogVars, parseVars, staleRes, scanVars>>

ConjNext ==
    \/ \E c \in ConjCalls : ConjCall(c)
    \/ \E d \in DistValues : ConjSample(d)
    \/ ConjReturn
    \/ ConjAgain

\* the service with a loaded catalog, asked for a conjunction
SpecConj == PassInit /\ [][ConjNext]_vars

----------------------------------------------------------------------------
(* SpecLoops: the three loops of the service run step by step. Each is      *)
(* synchronous code with locals of its own, so a behaviour runs one of      *)
(* them: the while loop of _parse_tle_data on a text of at most             *)
(* MaxLoopLines lines, the pass scan, or the conjunction scan.              *)

MaxLoopLines == 4

\* elevations and distances of the samples the scans are run on
LoopElevs == {10, 15, 40}

LoopDists == {Nan, Metres(500), Metres(20000)}

\* the caller supplies one more line of the text block
AddLoopLine ==
    /\ ploop.pc = "idle"
    /\ Len(text) < MaxLoopLines
    /\ \E l \in ParseLines : text' = Append(text, l)
    /\ UNCHANGED <<parsed, ploop, catalogVars, staleRes, scanVars, conjVars>>

\* _parse_tle_data(tle_text) up to the while loop (lines 397-401)
ParseBegin ==
    /\ ploop.pc = "idle"
    /\ ploop' = [ploop EXCEPT !.pc = "run"]
    /\ UNCHANGED <<text, parsed, catalogVars, staleRes, scanVars, conjVars>>

\* the loop test and one iteration of the while loop (lines 402-425), or the
\* exception handler (lines 429-431)
ParseIter ==
    /\ ploop.pc = "run"
    /\ ploop' = [ParseStep(SplitLines(text), ploop) EXCEPT
                    !.n = IF ParseStep(SplitLines(text), ploop).pc = "done"
                          THEN @ ELSE @ + 1]
    /\ UNCHANGED <<text, parsed, catalogVars, staleRes, scanVars, conjVars>>

\* no pass query and no conjunction query has been made
NoQuery == scan = IdleScan /\ conj = IdleConj

\* the parser has not been given anything
NoParse == text = <<>> /\ ploop = IdleLoop

LoopsNext ==
    \/ NoQuery /\ AddLoopLine
    \/ NoQuery /\ ParseBegin
    \/ NoQuery /\ ParseIter
    \/ NoParse /\ conj = IdleConj /\ \E q \in PassQueries : PassesCall(q)
    \/ NoParse /\ conj = IdleConj /\ \E alt \in LoopElevs, az \in AzValues : ScanSample(alt, az)
    \/ NoParse /\ conj = IdleConj /\ PassesReturn
    \/ NoParse /\ scan = IdleScan /\ \E c \in ConjCalls : ConjCall(c)
    \/ NoParse /\ scan = IdleScan /\ \E d \in LoopDists : ConjSample(d)
    \/ NoParse /\ scan = IdleScan /\ ConjReturn

\* the service with a loaded catalog
SpecLoops == PassInit /\ [][LoopsNext]_vars

----------------------------------------------------------------------------
(* Properties of the catalog (Spec) *)

InFetch(t) == tasks[t].pc \in {"loop", "await_get", "await_text"}

\* group g has the same entries and the same timestamp after the step
SameGroup(g) ==
    /\ (g \in DOMAIN satellites') = (g \in DOMAIN satellites)
    /\ (g \in DOMAIN satellites => satellites'[g] = satellites[g])
    /\ (g \in DOMAIN last_update') = (g \in DOMAIN last_update)
    /\ (g \in DOMAIN last_update => last_update'[g] = last_update[g])

\* task t finishes, in this step, the loop iteration of source src
FinishesIteration(t, src) ==
    /\ tasks[t].srcs # <<>>
    /\ Head(tasks[t].srcs) = src
    /\ src \in TleSources
    /\ tasks'[t].srcs = Tail(tasks[t].srcs)

\* C1: a group always holds one complete parsed batch, the one of its last
\* successful ingestion, and a read query of group G returns, whatever is
\* in flight for G, the count and the items of that complete batch (the
\* prior batch until the new one is installed, the new one afterwards).
C1_AtomicIngest ==
    /\ \A g \in DOMAIN satellites : g \in DOMAIN hist /\ satellites[g] = hist[g]
    /\ (ret.op \in {"constellation", "debris"} /\ ret.kind = "ok") =>
          /\ ret.arg \in DOMAIN hist
          /\ ret.total = Len(hist[ret.arg])
          /\ ret.items = Take(hist[ret.arg],
                              IF ret.op = "debris" THEN DebrisLimit ELSE ConstellationLimit)
    /\ (ret.op = "iss_position" /\ ret.kind \in {"ok", "empty"}) =>
          /\ "iss" \in DOMAIN hist
          /\ ret.items = Take(hist["iss"], 1)

\* a constellation query returned the group's batch while an ingestion of the
\* same group was suspended half way
C1_Witness ==
    /\ ret.op = "constellation"
    /\ ret.kind = "ok"
    /\ ret.items # <<>>
    /\ \E u \in Tasks : /\ tasks[u].pc \in {"await_get", "await_text"}
                        /\ tasks[u].op = "update"
                        /\ Head(tasks[u].srcs) = ret.arg

\* C2: when a successful ingestion of a group follows an earlier successful
\* ingestion of the same group and the two batches share no catalog number,
\* the group afterwards shows exactly the catalog numbers of the second batch
\* and none of the first.
C2_SecondBatchOnly ==
    (ingested.src # "" /\ ingested.second
        /\ ingested.prev \cap DictKeys(ingested.batch) = {}) =>
       /\ ingested.src \in DOMAIN satellites
       /\ DictKeys(satellites[ingested.src]) = DictKeys(ingested.batch)
       /\ DictKeys(satellites[ingested.src]) \cap ingested.prev = {}

C2_Witness ==
    /\ ingested.src = "debris"
    /\ ingested.second
    /\ ingested.prev # {}
    /\ ingested.batch # <<>>
    /\ ingested.prev \cap DictKeys(ingested.batch) = {}

\* C3: every step of an update_tle_data(source) call for a single configured
\* source leaves the entries and the last-ingestion timestamp of every other
\* group as they were.
C3_OtherGroupsUnchanged ==
    [][\A t \in Tasks :
          (tasks[t].op = "update" /\ tasks[t].arg \in TleSources /\ tasks'[t] # tasks[t])
             => \A g \in TleSources \ {tasks[t].arg} : SameGroup(g)]_vars

\* a single-source ingestion of "debris" has just succeeded while "iss" holds
\* entries
C3_Witness ==
    /\ ingested.src = "debris"
    /\ \E t \in Tasks : tasks[t].op = "update" /\ tasks[t].arg = "debris"
    /\ "iss" \in DOMAIN satellites
    /\ satellites["iss"] # <<>>

C5_FailedFetchChangesNothing ==
    [][\A t \in Tasks : \A src \in TleSources :
          FinishesIteration(t, src) =>
             IF src \in DOMAIN tasks'[t].results
                /\ tasks'[t].results[src].status = "success"
             THEN src \in DOMAIN last_update' /\ last_update'[src] = now
             ELSE SameGroup(src)]_vars

\* a fetch for a group that holds entries of an earlier time has just failed
C5_Witness ==
    \E t \in Tasks : \E g \in DOMAIN tasks[t].results :
        /\ tasks[t].pc = "loop"
        /\ tasks[t].srcs = <<>>
        /\ tasks[t].results[g].status = "error"
        /\ g \in DOMAIN satellites
        /\ satellites[g] # <<>>
        /\ last_update[g] < now

----------------------------------------------------------------------------
(* Properties of _needs_update (SpecStale) *)

\* C6: the answer of a staleness query is TRUE exactly when the group was
\* never ingested or the time since its last ingestion is strictly greater
\* than max_age (an age equal to max_age is not stale), and the query leaves
\* the catalog as it was.
C6_StalenessIsPure ==
    [][staleRes' # staleRes =>
          /\ staleRes'.ans =
                (~staleRes'.known
                 \/ staleRes'.at - staleRes'.last > staleRes'.hours * SecondsPerHour)
          /\ staleRes'.at = now
          /\ staleRes'.known = (staleRes'.source \in DOMAIN last_update)
          /\ (staleRes'.known => staleRes'.last = last_update[staleRes'.source])
          /\ satellites' = satellites
          /\ last_update' = last_update]_vars

\* a query about a group whose age is exactly max_age was answered
C6_Witness ==
    /\ staleRes.asked
    /\ staleRes.known
    /\ staleRes.hours = DefaultMaxAgeHours
    /\ staleRes.at - staleRes.last = DefaultMaxAgeHours * SecondsPerHour
    /\ ~staleRes.ans

----------------------------------------------------------------------------
(* Properties of _parse_tle_data (SpecParse) *)

\* a name line directly followed by a '1 ' line and a '2 ' line that carry
\* one catalog number
RecordAt(ls, i) ==
    /\ i + 2 <= Len(ls)
    /\ ls[i].k = "name"
    /\ ls[i + 1].k = "1"
    /\ ls[i + 2].k = "2"
    /\ ls[i + 1].v = ls[i + 2].v

AllNumeric(ls) == \A j \in 1..Len(ls) : ls[j].k = "2" => ls[j].ok

\* the block is a run of three-line records and nothing else
Aligned(ls) ==
    /\ Len(ls) % 3 = 0
    /\ \A n \in 0..(Len(ls) \div 3 - 1) : RecordAt(ls, 3 * n + 1)

RECURSIVE RecordIdsFrom(_, _)
\* the catalog numbers of the records of the block, in input order
RecordIdsFrom(ls, i) ==
    IF i > Len(ls) THEN <<>>
    ELSE IF RecordAt(ls, i) THEN <<ls[i + 1].v>> \o RecordIdsFrom(ls, i + 3)
         ELSE RecordIdsFrom(ls, i + 1)

Distinct(q) == \A i, j \in 1..Len(q) : i # j => q[i] # q[j]

\* C8: in a block made of three-line records, every record whose orbital
\* fields are numeric is returned, whatever the other records hold.
C8_BadRecordRejectedAlone ==
    (parsed.done /\ Aligned(text)) =>
        \A n \in 0..(Len(text) \div 3 - 1) :
            text[3 * n + 3].ok => DictHas(parsed.sats, text[3 * n + 2].v)

\* every '1 ' line directly followed by a '2 ' line has a name line before it
\* and the same catalog number: what the records of the block are does not
\* depend on the name line being optional
Unambiguous(ls) ==
    \A i \in 1..Len(ls) :
        (i + 1 <= Len(ls) /\ ls[i].k = "1" /\ ls[i + 1].k = "2") =>
            i > 1 /\ RecordAt(ls, i - 1)

\* C9: for a block whose data lines are all numeric and whose records carry
\* distinct catalog numbers, the parser returns exactly the records of the
\* block, in input order, whatever stray or orphaned lines lie between them.
C9_ExactlyValidRecords ==
    (parsed.done /\ AllNumeric(text) /\ Unambiguous(text)
        /\ Distinct(RecordIdsFrom(text, 1))) =>
        DictKeySeq(parsed.sats) = RecordIdsFrom(text, 1)

\* C10 as stated: a block that opens with a '1 ' line directly followed by a
\* numeric '2 ' line of the same catalog number has that two-line record
\* parsed.
C10_NameOptional ==
    (parsed.done /\ AllNumeric(text) /\ Len(text) >= 2
        /\ text[1].k = "1" /\ text[2].k = "2" /\ text[1].v = text[2].v) =>
        DictHas(parsed.sats, text[1].v)

\* C10 amended: every record the parser returns is three consecutive lines of
\* the block: a non-blank line not starting with '0 ', kept as the name,
\* directly followed by a '1 ' line and a '2 ' line.
C10_NameRequired ==
    parsed.done =>
        \A j \in 1..Len(parsed.sats) :
            LET e == parsed.sats[j][2]
                ls == SplitLines(text)
            IN \E i \in 1..Len(ls) :
                  /\ i + 2 <= Len(ls)
                  /\ ~IsBlank(ls[i]) /\ ls[i].k # "zero"
                  /\ e.name = ls[i]
                  /\ e.line1 = ls[i + 1] /\ ls[i + 1].k = "1"
                  /\ e.line2 = ls[i + 2] /\ ls[i + 2].k = "2"
                  /\ parsed.sats[j][1] = ls[i + 1].v

\* a block of two-line records only, of which the parser returned one, with
\* the previous record's '2 ' line as its name
C10_Witness ==
    /\ parsed.done
    /\ Len(text) = 6
    /\ \A j \in 1..Len(text) : text[j].k = (IF j % 2 = 1 THEN "1" ELSE "2")
    /\ Len(parsed.sats) = 1
    /\ parsed.sats[1][2].name.k = "2"

\* the block is a run of three-line groups the parser takes as records: a
\* name candidate, a '1 ' line, a numeric '2 ' line
TripleBlock(ls) ==
    /\ Len(ls) > 0
    /\ Len(ls) % 3 = 0
    /\ \A n \in 0..(Len(ls) \div 3 - 1) :
          /\ IsNameCandidate(ls[3 * n + 1])
          /\ ls[3 * n + 2].k = "1"
          /\ ls[3 * n + 3].k = "2" /\ ls[3 * n + 3].ok

\* the catalog numbers of the records of a TripleBlock, in input order
TripleIds(ls) == [n \in 1..(Len(ls) \div 3) |-> ls[3 * n - 1].v]

RECURSIVE FirstOccurrences(_)
\* q without the repetitions of an earlier element
FirstOccurrences(q) ==
    IF q = <<>> THEN <<>>
    ELSE LET r == FirstOccurrences(SubSeq(q, 1, Len(q) - 1))
         IN IF \E j \in 1..Len(r) : r[j] = q[Len(q)] THEN r ELSE Append(r, q[Len(q)])

\* C11 as stated: the parser returns one element set per valid input record,
\* also when two records of the block carry the same catalog number.
C11_NoDeduplication ==
    (parsed.done /\ TripleBlock(text)) => Len(parsed.sats) = Len(text) \div 3

\* C11 amended: the parser returns one element set per distinct catalog
\* number, in the order in which the numbers first occur in the input, and
\* the element set kept for a number is the last input record carrying it.
C11_LastRecordPerNumber ==
    (parsed.done /\ TripleBlock(text)) =>
        /\ DictKeySeq(parsed.sats) = FirstOccurrences(TripleIds(text))
        /\ \A n \in 1..(Len(text) \div 3) :
              (\A m \in (n + 1)..(Len(text) \div 3) : TripleIds(text)[m] # TripleIds(text)[n]) =>
                  LET e == DictGet(parsed.sats, TripleIds(text)[n])
                  IN /\ e.name = text[3 * n - 2]
                     /\ e.line1 = text[3 * n - 1]
                     /\ e.line2 = text[3 * n]

\* two records with one catalog number and different name lines were parsed:
\* one element set is returned, and it is the second record
C11_Witness ==
    /\ parsed.done
    /\ TripleBlock(text)
    /\ Len(text) = 6
    /\ text[2].v = text[5].v
    /\ text[1] # text[4]
    /\ Len(parsed.sats) = 1
    /\ parsed.sats[1][2].name = text[4]

\* the ElementSet invariant
ValidElementSet(e) ==
    /\ 0 <= e.eccentricity.num /\ e.eccentricity.num < e.eccentricity.den
    /\ e.mean_motion > 0
    /\ \A a \in {e.inclination, e.raan, e.arg_perigee, e.mean_anomaly} :
          0 <= a /\ a < 360

\* C12: every element set the parser returns has its eccentricity in [0, 1),
\* a strictly positive mean motion, and its inclination, RAAN, argument of
\* perigee and mean anomaly in [0, 360).
C12_ElementSetInvariant ==
    parsed.done =>
        \A j \in 1..Len(parsed.sats) : ValidElementSet(parsed.sats[j][2])

----------------------------------------------------------------------------
(* Properties of get_satellite_passes (SpecPass) *)

\* sample i of the window is above the minimum elevation
Above(i) == samples[i].alt > 10

\* the first sample after i that is at or below the minimum; 0 if none
FirstBelowAfter(i) ==
    LET ends == { j \in (i + 1)..Len(samples) : ~Above(j) }
    IN IF ends = {} THEN 0 ELSE CHOOSE j \in ends : \A h \in ends : j <= h

\* C13: at every sample above the minimum elevation that follows a sample at
\* or below it a pass begins; the pass ends at the first later sample at or
\* below the minimum (it stays open while there is none); and between the
\* start and the end of a pass no sample is at or below the minimum.
C13_PassBoundaries ==
    /\ \A i \in 2..Len(samples) :
          (Above(i) /\ ~Above(i - 1)) =>
              IF FirstBelowAfter(i) = 0
              THEN scan.current_pass.open /\ scan.current_pass.start_time = i
              ELSE \E k \in 1..Len(scan.passes) :
                      /\ scan.passes[k].start_time = i
                      /\ scan.passes[k].end_time = FirstBelowAfter(i)
    /\ \A k \in 1..Len(scan.passes) :
          LET p == scan.passes[k]
          IN /\ p.start_time < p.end_time
             /\ \A i \in p.start_time..(p.end_time - 1) : Above(i)
             /\ ~Above(p.end_time)

\* the scan returned one pass that began at the second sample, right after a
\* sample at the minimum, and ended at the fourth
C13_Witness ==
    /\ scan.pc = "returned"
    /\ scan.result.kind = "ok"
    /\ samples[1].alt = 10
    /\ Len(scan.result.passes) = 1
    /\ scan.result.passes[1].start_time = 2
    /\ scan.result.passes[1].end_time = 4

\* the samples at which the elevation falls back to or below the minimum
DownCrossings == { j \in 2..Len(samples) : ~Above(j) /\ Above(j - 1) }

\* the first sample of the run of above-minimum samples that reaches the end
\* of the window
TrailingStart ==
    CHOOSE i \in 1..Len(samples) :
        /\ \A j \in i..Len(samples) : Above(j)
        /\ (i > 1 => ~Above(i - 1))

\* C14: when the last sample of the window is above the minimum elevation,
\* the pass then open is neither among the reported passes nor counted in
\* total_passes.
C14_OpenPassDropped ==
    (scan.pc = "returned" /\ scan.result.kind = "ok" /\ Above(Len(samples))) =>
        /\ scan.result.total_passes = Cardinality(DownCrossings)
        /\ \A k \in 1..Len(scan.result.passes) :
              /\ scan.result.passes[k].start_time # TrailingStart
              /\ scan.result.passes[k].end_time < TrailingStart

\* the scan returned with one finished pass while a second pass was open at
\* the last sample
C14_Witness ==
    /\ scan.pc = "returned"
    /\ scan.result.kind = "ok"
    /\ Above(Len(samples))
    /\ scan.current_pass.open
    /\ scan.current_pass.start_time = 3
    /\ scan.result.total_passes = 1
    /\ Len(scan.result.passes) = 1

\* C15: every reported pass has, inside the window, a sample at or below the
\* minimum elevation immediately before its start and one at its end; a pass
\* in progress at the first sample of the window is not reported.
C15_OnlyBoundedPasses ==
    (scan.pc = "returned" /\ scan.result.kind = "ok") =>
        \A k \in 1..Len(scan.result.passes) :
            LET p == scan.result.passes[k]
            IN /\ p.start_time > 1
               /\ ~Above(p.start_time - 1)
               /\ ~Above(p.end_time)

\* C16: the reported passes are in chronological order, each starting
\* strictly later than the one reported before it.
C16_ChronologicalOrder ==
    (scan.pc = "returned" /\ scan.result.kind = "ok") =>
        \A k \in 1..(Len(scan.result.passes) - 1) :
            scan.result.passes[k].start_time < scan.result.passes[k + 1].start_time

\* the scan returned two passes
C16_Witness ==
    /\ scan.pc = "returned"
    /\ scan.result.kind = "ok"
    /\ Len(scan.result.passes) = 2
    /\ scan.result.passes[1].start_time = 1
    /\ scan.result.passes[2].start_time = 3

\* C17: the peak elevation of a reported pass is the greatest elevation among
\* the samples of the pass, and the reported peak time and peak azimuth are
\* the time and the azimuth of one sample of the pass with that elevation.
C17_PeakIsBestSample ==
    (scan.pc = "returned" /\ scan.result.kind = "ok") =>
        \A k \in 1..Len(scan.result.passes) :
            LET p == scan.result.passes[k]
                within == p.start_time..(p.end_time - 1)
            IN /\ \A i \in within : samples[i].alt <= p.max_elevation
               /\ p.max_elevation_time \in within
               /\ samples[p.max_elevation_time].alt = p.max_elevation
               /\ samples[p.max_elevation_time].az = p.max_elevation_azimuth

\* a reported pass peaked after its start, at the first of two samples of
\* equal elevation and different azimuth
C17_Witness ==
    /\ scan.pc = "returned"
    /\ scan.result.kind = "ok"
    /\ Len(scan.result.passes) = 1
    /\ scan.result.passes[1].start_time = 1
    /\ scan.result.passes[1].end_time = 4
    /\ scan.result.passes[1].max_elevation_time = 2
    /\ samples[3].alt = samples[2].alt
    /\ samples[3].az # samples[2].az

\* the banding with inclusive lower bounds
InclusiveBand(peak) ==
    IF peak >= 70 THEN "excellent"
    ELSE IF peak >= 40 THEN "good"
    ELSE IF peak >= 20 THEN "fair"
    ELSE "poor"

\* C18: the visibility class of a reported pass is excellent for a peak of 70
\* degrees or more, good from 40 up to 70, fair from 20 up to 40 and poor
\* below; a peak of exactly 70, 40 or 20 degrees is in the upper band.
C18_InclusiveBands ==
    (scan.pc = "returned" /\ scan.result.kind = "ok") =>
        \A k \in 1..Len(scan.result.passes) :
            scan.result.passes[k].visibility
                = InclusiveBand(scan.result.passes[k].max_elevation)

----------------------------------------------------------------------------
(* Properties of calculate_collision_probability (SpecConj) *)

\* the sample times of the window at which the two positions gave a distance
Measured == { i \in 1..Len(dists) : ~dists[i].nan }

\* C19: the reported minimum separation is less than or equal to the
\* separation at every sample time of the window, and the reported time of
\* closest approach is a sample time whose separation is that minimum.
C19_MinimumTracked ==
    (conj.pc = "returned" /\ conj.result.kind = "ok" /\ Measured # {}) =>
        /\ ~conj.result.minimum_distance.inf
        /\ \A i \in Measured : conj.result.minimum_distance.m <= dists[i].m
        /\ conj.result.closest_approach_time \in Measured
        /\ dists[conj.result.closest_approach_time].m = conj.result.minimum_distance.m

\* the minimum was found at the second sample, a greater separation followed
C19_Witness ==
    /\ conj.pc = "returned"
    /\ conj.result.kind = "ok"
    /\ {1, 2, 3} \subseteq Measured
    /\ dists[2].m < dists[1].m
    /\ dists[2].m < dists[3].m
    /\ conj.result.closest_approach_time = 2

\* C20: for every minimum separation d, the probability is
\* max(0, 1 - d / collision_radius) when d is below 10 km and zero otherwise.
C20_ProbabilityProxy ==
    (conj.pc = "returned" /\ conj.result.kind = "ok"
        /\ ~conj.result.minimum_distance.inf) =>
        LET d == conj.result.minimum_distance.m
            p == conj.result.collision_probability
        IN /\ p.den > 0
           /\ (d < 10000 /\ d <= 1000) => p.num * 1000 = (1000 - d) * p.den
           /\ (d < 10000 /\ d > 1000) => p.num = 0
           /\ d >= 10000 => p.num = 0

\* a minimum separation of half the collision radius was scored one half
C20_Witness ==
    /\ conj.pc = "returned"
    /\ conj.result.kind = "ok"
    /\ conj.result.minimum_distance = [inf |-> FALSE, m |-> 500]
    /\ conj.result.collision_probability.num * 2 = conj.result.collision_probability.den

\* two conjunction results, the earlier one kept by the caller
TwoResults ==
    /\ conj.pc = "returned"
    /\ conj.result.kind = "ok"
    /\ conj.prev.kind = "ok"

\* C21 as stated: two conjunction results with the same risk level carry the
\* same recommendation.
C21_RiskDeterminesRecommendation ==
    (TwoResults /\ conj.prev.risk_level = conj.result.risk_level) =>
        conj.prev.recommendation = conj.result.recommendation

\* the minimum separation is below the 5 km close-approach distance
IsClose(d) == ~d.inf /\ d.m < 5000

\* C21 amended: the recommendation is fixed by the risk level at high and at
\* medium risk; at low risk it is "close approach" when the minimum
\* separation is below 5 km and "normal operations" otherwise, so two results
\* with the same risk level carry the same recommendation when the risk is
\* high or medium, or when both separations are on the same side of 5 km.
C21_RecommendationBands ==
    /\ (conj.pc = "returned" /\ conj.result.kind = "ok") =>
          conj.result.recommendation =
              (CASE conj.result.risk_level = "high" -> "immediate maneuver"
                 [] conj.result.risk_level = "medium" -> "monitor closely"
                 [] OTHER -> IF IsClose(conj.result.minimum_distance)
                             THEN "close approach" ELSE "normal operations")
    /\ (TwoResults /\ conj.prev.risk_level = conj.result.risk_level
          /\ (conj.result.risk_level = "low" =>
                IsClose(conj.prev.minimum_distance) = IsClose(conj.result.minimum_distance))) =>
          conj.prev.recommendation = conj.result.recommendation

\* two low-risk results, one with a minimum separation below 5 km and one
\* without, carry different recommendations
C21_Witness ==
    /\ TwoResults
    /\ conj.prev.risk_level = "low"
    /\ conj.result.risk_level = "low"
    /\ conj.prev.recommendation = "close approach"
    /\ conj.result.recommendation = "normal operations"

\* C22: when no sample of the window gave a usable position for the pair, the
\* analysis returns the data-unavailable outcome and never a normal result
\* record.
C22_NoPositionIsUnavailable ==
    (conj.pc = "returned" /\ Len(dists) > 0 /\ Measured = {}) =>
        conj.result.kind = "error_unavailable"

----------------------------------------------------------------------------
(* Properties of the loops (SpecLoops) *)

\* q' is q with one more element
OneMore(q, qNext) ==
    /\ Len(qNext) = Len(q) + 1
    /\ SubSeq(qNext, 1, Len(q)) = q

\* C25: every iteration of the parser's loop moves the line index forward,
\* the loop is left only when fewer than three lines remain at the index (or
\* by the exception handler), and it makes no more iterations than the text
\* has lines; every iteration of the pass scan and of the conjunction scan
\* takes the next sample of the window, and the scan is left only when each
\* sample of the window has been taken once.
C25_LoopsAdvance ==
    [][ /\ ploop.pc = "run" =>
              /\ ploop'.pc = "run" =>
                    /\ ploop'.i > ploop.i
                    /\ ploop.i + 2 <= Len(SplitLines(text))
              /\ ploop'.pc = "done" => ploop.i + 2 > Len(SplitLines(text))
              /\ ploop'.pc \in {"run", "done", "failed"}
              /\ ploop'.n <= Len(SplitLines(text))
        /\ scan.pc = "loop" =>
              /\ scan'.pc = "loop" =>
                    OneMore(samples, samples') /\ Len(samples') <= MaxSamples
              /\ scan'.pc = "returned" =>
                    samples' = samples /\ Len(samples) = MaxSamples
              /\ scan'.pc \in {"loop", "returned"}
        /\ conj.pc = "loop" =>
              /\ conj'.pc = "loop" =>
                    OneMore(dists, dists') /\ Len(dists') <= MaxConjSamples
              /\ conj'.pc = "returned" =>
                    dists' = dists /\ Len(dists) = MaxConjSamples
              /\ conj'.pc \in {"loop", "returned"}
      ]_vars

\* the parser's loop skipped a line, took a record and was left past the end
\* of a text of four lines
C25_Witness ==
    /\ ploop.pc = "done"
    /\ Len(text) = 4
    /\ ploop.n = 2
    /\ ploop.i = 5
    /\ Len(ploop.sats) = 1

\* C23: a query that fails, because the object or group is not in the
\* catalog or because of an internal error while computing, returns a
\* distinct error outcome, never an empty value.
C23_FailuresAreDistinctErrors ==
    /\ (scan.pc = "returned" /\ scan.result.kind # "ok") =>
          scan.result.kind = "error"
    /\ (conj.pc = "returned" /\ conj.result.kind # "ok") =>
          conj.result.kind \in {"error_unavailable", "error_not_found"}

\* C28: every step of get_satellite_passes and of
\* calculate_collision_probability, on the normal, the not-found and the
\* internal-error paths, leaves the entries of every group and every
\* last-ingestion timestamp unchanged.
C28_QueriesReadOnly ==
    [][ (scan' # scan \/ conj' # conj) =>
            /\ satellites' = satellites
            /\ last_update' = last_update
      ]_vars

\* a pass query ended on its internal-error path with the catalog as it was
C28_Witness ==
    /\ scan.pc = "returned"
    /\ scan.result.kind = "empty"
    /\ satellites = PassCatalog
    /\ DOMAIN last_update = DOMAIN PassCatalog

----------------------------------------------------------------------------
(* Properties of the group queries and of ingestion (Spec) *)

\* the ids of the items of a result that propagate
GoodIds(items) == { items[i][1] : i \in { j \in 1..Len(items) : Propagates(items[j][2]) } }

\* C24: in a constellation or debris query a failure while processing one
\* object only removes that object: every other examined object appears in
\* the result, nothing else does, and the query returns a normal result.
C24_FailureScopedToObject ==
    (ret.op \in {"constellation", "debris"} /\ ret.items # <<>>) =>
        /\ ret.kind = "ok"
        /\ { ret.list[j] : j \in 1..Len(ret.list) } = GoodIds(ret.items)
        /\ Len(ret.list) = Cardinality(GoodIds(ret.items))

\* a constellation query examined two objects, one of which failed
C24_Witness ==
    /\ ret.op = "constellation"
    /\ ret.kind = "ok"
    /\ Len(ret.items) = 2
    /\ Len(ret.list) = 1
    /\ \E i \in 1..2 : ~Propagates(ret.items[i][2])

\* task t is inside an update_tle_data call that names an unknown source
UpdatingUnknown(t) ==
    /\ tasks[t].pc = "loop"
    /\ tasks[t].arg \notin TleSources \cup {"all"}

\* C26: the groups that have entries are the groups that have a timestamp,
\* and both are configured sources, in every state update_tle_data leaves
\* behind; a call that names an unknown source changes neither map and
\* returns the empty result.
C26_CatalogDomains ==
    [][ /\ DOMAIN satellites' = DOMAIN last_update'
        /\ DOMAIN satellites' \subseteq TleSources
        /\ \A t \in Tasks :
              UpdatingUnknown(t) =>
                  /\ satellites' = satellites
                  /\ last_update' = last_update
                  /\ (tasks'[t].pc = "idle" /\ ret'.op = "update") =>
                         ret'.results = EmptyMap
      ]_vars

\* update_tle_data("bogus") returned {} to a catalog that holds a group
C26_Witness ==
    /\ ret.op = "update"
    /\ ret.arg = "bogus"
    /\ ret.results = EmptyMap
    /\ DOMAIN satellites = {"iss"}
    /\ DOMAIN last_update = {"iss"}

\* C27: when the text fetched for a group parses to the empty mapping, the
\* ingestion still replaces the group's entries by the empty mapping, stamps
\* the group with the current time and reports status success with count 0;
\* a query of the group then sees no object, and the group is not stale.
C27_EmptyBatchReplaces ==
    (ingested.src # "" /\ ingested.batch = <<>>) =>
        /\ ingested.src \in DOMAIN satellites
        /\ satellites[ingested.src] = <<>>
        /\ ReadConstellation(satellites, ingested.src).total = 0
        /\ ReadConstellation(satellites, ingested.src).list = <<>>
        /\ last_update[ingested.src] = now
        /\ ~NeedsUpdate(last_update, ingested.src, now, DefaultMaxAgeHours)
        /\ \E t \in Tasks :
              /\ ingested.src \in DOMAIN tasks[t].results
              /\ tasks[t].results[ingested.src].status = "success"
              /\ tasks[t].results[ingested.src].count = 0

\* an empty batch has just replaced the objects of an earlier ingestion
C27_Witness ==
    /\ ingested.src = "iss"
    /\ ingested.batch = <<>>
    /\ ingested.second
    /\ ingested.prev # {}
    /\ satellites["iss"] = <<>>

----------------------------------------------------------------------------
(* Numeric bands of the conjunction result (SpecConj) *)

\* C29: with the collision radius of 1 km the probability lies in [0, 1] and
\* is positive exactly when the minimum separation d is below 1 km; it is
\* max(0, 1 - d) whether or not d is below the 10 km threshold; the risk level
\* is high exactly when d < 0.9 km, medium exactly when 0.9 <= d < 0.99 km and
\* low otherwise (distances in metres, an infinite minimum counts as far).
C29_RiskBands ==
    (conj.pc = "returned" /\ conj.result.kind = "ok") =>
        LET md == conj.result.minimum_distance
            p == conj.result.collision_probability
            risk == conj.result.risk_level
            below(x) == ~md.inf /\ md.m < x
        IN /\ p.den > 0
           /\ 0 <= p.num /\ p.num <= p.den
           /\ p.num > 0 <=> below(1000)
           /\ p.num * 1000 = (IF below(1000) THEN 1000 - md.m ELSE 0) * p.den
           /\ risk = "high" <=> below(900)
           /\ risk = "medium" <=> (below(990) /\ ~below(900))
           /\ risk = "low" <=> ~below(990)

\* a minimum separation of exactly 0.99 km: positive probability, low risk
C29_Witness ==
    /\ conj.pc = "returned"
    /\ conj.result.kind = "ok"
    /\ conj.result.minimum_distance = [inf |-> FALSE, m |-> 990]
    /\ conj.result.collision_probability.num > 0
    /\ conj.result.risk_level = "low"

----------------------------------------------------------------------------
(* Shape of the pass list (SpecLong) *)

\* C30: the passes found are well formed (start before end, peak time in
\* [start, end), peak above the threshold) and pairwise disjoint, each ending
\* no later than the next one starts; the query returns the first PassLimit
\* of them in order, and total_passes counts all of them.
C30_PassListShape ==
    LET all == scan.passes
    IN /\ \A i \in 1..Len(all) :
            /\ all[i].start_time < all[i].end_time
            /\ all[i].start_time <= all[i].max_elevation_time
            /\ all[i].max_elevation_time < all[i].end_time
            /\ all[i].max_elevation > MinElevation
       /\ \A i, j \in 1..Len(all) : i < j => all[i].end_time <= all[j].start_time
       /\ (scan.pc = "returned" /\ scan.result.kind = "ok") =>
            /\ Len(scan.result.passes) = Min(Len(all), 10)
            /\ \A i \in 1..Len(scan.result.passes) : scan.result.passes[i] = all[i]
            /\ scan.result.total_passes = Len(all)

\* more passes were found than are returned, the first one with its peak
\* after its start
C30_Witness ==
    /\ scan.pc = "returned"
    /\ scan.result.kind = "ok"
    /\ scan.result.total_passes > 10
    /\ Len(scan.result.passes) = 10
    /\ scan.result.passes[1].max_elevation_time > scan.result.passes[1].start_time

====
